---- MODULE Spec2Model ----
(***************************************************************************)
(* rsyslog libgcrypt crypto provider (runtime/libgcry.c).                  *)
(*                                                                         *)
(* Several state machines share this module:                               *)
(*   Spec     one writer process and one reader process running            *)
(*            rsgcryInitCrypt / gcryfileDestruct on the same log path,     *)
(*            one step per system call or cipher-library call;             *)
(*   WriterSpec  the writer alone, session after session on one path;      *)
(*   KeySpec  a context configured with rsgcrySetAlgo / rsgcrySetKey;      *)
(*   PadSpec  addPadding / removePadding / rsgcryEncrypt / rsgcryDecrypt   *)
(*            applied to a caller's buffer;                                *)
(*   RecSpec  eiGetRecord reading one record text character by character;  *)
(*   HexSpec  eiWriteIV / eiGetIV on one IV or one IV record value.        *)
(* Bytes and characters are their numeric codes.  Memory allocation is     *)
(* taken to succeed.                                                       *)
(***************************************************************************)
EXTENDS Integers, Sequences, FiniteSets, TLC

VARIABLES
    file,       \* contents of <logfn>.encinfo, a sequence of bytes
    exists,     \* whether <logfn>.encinfo exists
    pc,         \* pc[p]: position of process p in rsgcryInitCrypt / its caller
    gf,         \* gf[p]: the gcryfile object of p's current session
    fdt,        \* fdt[p]: p's open descriptors on the side-file, fd -> [flags, off]
    nChd,       \* nChd[p]: cipher handles p has open (gcry_cipher_open'ed, not closed)
    iv,         \* iv[p]: local "iv" of rsgcryInitCrypt
    iRet,       \* iRet[p]: local "iRet" of rsgcryInitCrypt
    pgf,        \* pgf[p]: the caller's *pgf
    readIVRet,  \* readIVRet[p]: value readIV() returned to rsgcryInitCrypt
    scan,       \* scan[p]: locals of eiGetRecord (i, j, rectype, value)
    hist,       \* history of the run (what was called, with what, by whom)
    calls,      \* calls[p]: rsgcryInitCrypt calls p's caller has yet to make
    ctx,        \* KeySpec: the gcryctx object
    kcall,      \* KeySpec: the last rsgcrySet* call, its arguments and result
    pF,         \* PadSpec: the session's block length
    buf,        \* PadSpec: the caller's buffer (whole allocation)
    len,        \* PadSpec: the caller's *len
    pcall,      \* PadSpec: the call history on the buffer
    rcall,      \* RecSpec: the record text eiGetRecord is run on
    hcall       \* HexSpec: the eiWriteIV / eiGetIV call, its arguments and result

protoVars == <<file, exists, pc, gf, fdt, nChd, iv, iRet, pgf, readIVRet, scan, hist, calls>>
keyVars   == <<ctx, kcall>>
padVars   == <<pF, buf, len, pcall>>
codecVars == <<rcall, hcall>>
vars      == <<protoVars, keyVars, padVars, codecVars>>

----------------------------------------------------------------------------
(* Bounds of the model *)

BlkLen      == 2   \* gcry_cipher_get_algo_blklen(ctx->algo) of the protocol runs
MaxSessions == 1   \* rsgcryInitCrypt calls the writer makes next to a reader
MaxSleeps   == 1   \* srSleep calls of the reader that are told apart

(* Program constants *)

READBUF_SIZE        == 4096
EIF_MAX_RECTYPE_LEN == 31
EIF_MAX_VALUE_LEN   == 1023
HexBufSize          == 4096

RS_RET_OK            == "RS_RET_OK"
RS_RET_ERR           == "RS_RET_ERR"
RS_RET_EI_NO_EXISTS  == "RS_RET_EI_NO_EXISTS"
RS_RET_EI_OPN_ERR    == "RS_RET_EI_OPN_ERR"
RS_RET_EI_INVLD_FILE == "RS_RET_EI_INVLD_FILE"
RS_RET_EI_WR_ERR     == "RS_RET_EI_WR_ERR"

NULL == "NULL"
NullIV == <<>>      \* a NULL iv pointer

\* "FILETYPE:"
FiletypeHdr == <<70,73,76,69,84,89,80,69,58>>
\* RSGCRY_FILETYPE_NAME, "rsyslog-enrcyption-info"
RSGCRY_FILETYPE_NAME ==
    <<114,115,121,115,108,111,103,45,101,110,114,99,121,112,
      116,105,111,110,45,105,110,102,111>>
IVHdr   == <<73,86,58>>       \* "IV:"
ENDHdr  == <<69,78,68,58>>    \* "END:"
IVType  == <<73,86>>          \* "IV"
LF      == <<10>>             \* "\n"
hexchars == <<48,49,50,51,52,53,54,55,56,57,97,98,99,100,101,102>>

Procs == {"w", "r"}
openMode(p) == p          \* the writer calls with 'w', the reader with 'r'

\* the contents an IV buffer can have in the model (random or uninitialised
\* bytes): 0x09 and 0xaf alternating, starting with either
IVBytes == <<9, 175>>
IVs     == {[k \in 1..BlkLen |-> IVBytes[((k + s) % 2) + 1]] : s \in {0, 1}}
\* final log offsets the caller hands to gcryfileDestruct
Offsets == {0, 12345}

Min(a, b) == IF a < b THEN a ELSE b
Max(a, b) == IF a > b THEN a ELSE b

----------------------------------------------------------------------------
(* eiWriteRec: one writev of recHdr, buf and "\n" *)

\* the three iovecs of eiWriteRec
RecMutNoLF(recHdr, b) == recHdr \o b
Rec(recHdr, b) == recHdr \o b \o LF

\* what writev can return for towrite bytes on descriptor d: nothing is
\* written through a descriptor opened O_RDONLY
WritevResultsMutAnyFd(d, towrite) == {towrite, towrite - 1, -1}
WritevResults(d, towrite) ==
    IF d.flags = "r" THEN {-1} ELSE {towrite, towrite - 1, -1}

\* the file after writev put the first n bytes of data through descriptor d
FileAfterWrite(f, d, data, n) ==
    IF n <= 0 THEN f
    ELSE IF d.flags = "a" THEN f \o SubSeq(data, 1, n)
    ELSE [k \in 1..Max(Len(f), d.off + n) |->
             IF k > d.off /\ k <= d.off + n THEN data[k - d.off] ELSE f[k]]

eiWriteRecRet(nwritten, towrite) ==
    IF nwritten # towrite THEN RS_RET_EI_WR_ERR ELSE RS_RET_OK

----------------------------------------------------------------------------
(* eiOpenRead: the return value for the outcome of open(O_RDONLY) *)

eiOpenReadRet(opened, enoent) ==
    IF opened THEN RS_RET_OK
    ELSE IF enoent THEN RS_RET_EI_NO_EXISTS ELSE RS_RET_EI_OPN_ERR

\* lowest descriptor number free in table t
LowestFd(t) == CHOOSE n \in 0..Cardinality(DOMAIN t) : n \notin DOMAIN t

OpenFd(t, flags) ==
    LET n == LowestFd(t)
    IN  [k \in DOMAIN t \cup {n} |-> IF k = n THEN [flags |-> flags, off |-> 0] ELSE t[k]]

\* close(n)
CloseFdMutNoop(t, n) == t
CloseFd(t, n) == [k \in DOMAIN t \ {n} |-> t[k]]

----------------------------------------------------------------------------
(* eiCheckFiletype: read and compare the header line *)

\* "FILETYPE:" RSGCRY_FILETYPE_NAME "\n", the text eiCheckFiletype compares with
FiletypeLine == FiletypeHdr \o RSGCRY_FILETYPE_NAME \o LF
toRead       == Len(FiletypeHdr) + Len(RSGCRY_FILETYPE_NAME) + 1

\* read(fd, ., n) at offset off of file f
ReadAt(f, off, n) == SubSeq(f, off + 1, Min(Len(f), off + n))

eiCheckFiletypeRet(hdrBuf) ==
    IF Len(hdrBuf) # toRead \/ hdrBuf # FiletypeLine
    THEN RS_RET_EI_INVLD_FILE ELSE RS_RET_OK

----------------------------------------------------------------------------
(* eiRead / eiReadChar / eiGetRecord *)

\* eiRead: read(fd, readBuf, READBUF_SIZE) at offset off; <<>> when nRead <= 0
eiReadBytes(f, off) == ReadAt(f, off, READBUF_SIZE)

ScanInit == [phase |-> "type", i |-> 0, j |-> 0, rectype |-> <<>>, value |-> <<>>]

\* The two loops of eiGetRecord run over the bytes b[idx+1..] of the read
\* buffer.  phase "type"/"value": the buffer ran out inside that loop (the next
\* eiReadChar refills); "ok": the record is complete; "err": a loop ended on
\* its size limit, so the last character read is not the delimiter.
RECURSIVE eiGetRecordScan(_, _, _)
eiGetRecordScan(st0, b, idx0) ==
    \* st and idx are bound to the values of the arguments
    CHOOSE r \in {
        IF st.phase = "type" THEN
            IF ~(st.i < EIF_MAX_RECTYPE_LEN) THEN [st |-> [st EXCEPT !.phase = "err"], idx |-> idx]
            ELSE IF idx >= Len(b) THEN [st |-> st, idx |-> idx]
            ELSE IF b[idx + 1] = 58
                 THEN eiGetRecordScan([st EXCEPT !.phase = "value", !.i = st.i + 1, !.j = 0],
                                      b, idx + 1)
                 ELSE eiGetRecordScan([st EXCEPT !.rectype = Append(st.rectype, b[idx + 1]),
                                                 !.i = st.i + 1], b, idx + 1)
        ELSE IF st.phase = "value" THEN
            IF ~(st.i < EIF_MAX_VALUE_LEN) THEN [st |-> [st EXCEPT !.phase = "err"], idx |-> idx]
            ELSE IF idx >= Len(b) THEN [st |-> st, idx |-> idx]
            ELSE IF b[idx + 1] = 10
                 THEN [st |-> [st EXCEPT !.phase = "ok"], idx |-> idx + 1]
                 ELSE eiGetRecordScan([st EXCEPT !.value = Append(st.value, b[idx + 1]),
                                                 !.i = st.i + 1, !.j = st.j + 1], b, idx + 1)
        ELSE [st |-> st, idx |-> idx]
        : st \in {st0}, idx \in {idx0} } : TRUE

----------------------------------------------------------------------------
(* eiGetIV: hex text to bytes *)

\* the nibble of character c, or "invalid" (the else branch of the loop)
nibbleOfMutUpper(c) ==
    IF c >= 48 /\ c <= 57 THEN <<c - 48>>
    ELSE IF c >= 65 /\ c <= 70 THEN <<c - 65 + 10>>
    ELSE <<>>
nibbleOf(c) ==
    IF c >= 48 /\ c <= 57 THEN <<c - 48>>
    ELSE IF c >= 97 /\ c <= 102 THEN <<c - 97 + 10>>
    ELSE <<>>

\* iv[j] = v on a buffer of Len(b) bytes; a store past the end sets oob
Store(r, j, v) ==
    IF j + 1 <= Len(r.iv) THEN [r EXCEPT !.iv[j + 1] = v] ELSE [r EXCEPT !.oob = TRUE]

\* the decoding loop from index i on; r = [ok, iv, oob]
RECURSIVE eiGetIVLoop(_, _, _, _)
eiGetIVLoop(value, i0, j0, r0) ==
    \* i, j and r are bound to the values of the arguments
    CHOOSE x \in {
        IF ~(i < Len(value)) THEN r
        ELSE IF nibbleOf(value[i + 1]) = <<>> THEN [r EXCEPT !.ok = FALSE]
        ELSE IF i % 2 = 0
             THEN eiGetIVLoop(value, i + 1, j, Store(r, j, (nibbleOf(value[i + 1])[1] * 16) % 256))
             ELSE eiGetIVLoop(value, i + 1, j + 1,
                              IF j + 1 <= Len(r.iv)
                              \* |= on a byte whose low nibble is clear
                              THEN Store(r, j, r.iv[j + 1] + nibbleOf(value[i + 1])[1])
                              ELSE [r EXCEPT !.oob = TRUE])
        : i \in {i0}, j \in {j0}, r \in {r0} } : TRUE

\* eiGetIV after eiGetRecord succeeded: ivbuf is the malloc'ed buffer as found
eiGetIV(rectype, value, ivbuf, leniv) ==
    LET r0 == [ok |-> TRUE, iv |-> ivbuf, oob |-> FALSE] IN
    IF rectype # IVType THEN [r0 EXCEPT !.ok = FALSE]
    ELSE IF Len(value) \div 2 # leniv THEN [r0 EXCEPT !.ok = FALSE]
    ELSE eiGetIVLoop(value, 0, 0, r0)

----------------------------------------------------------------------------
(* eiWriteIV: bytes to hex text; eiClose: the offset in decimal *)

eiWriteIVHexMutUpper(ivb, iSrc) ==
    [k \in 1..(2 * (Len(ivb) - iSrc)) |->
        LET b == ivb[iSrc + ((k + 1) \div 2)]
            n == IF k % 2 = 1 THEN b \div 16 ELSE b % 16
        IN  IF n < 10 THEN 48 + n ELSE 65 + n - 10]
RECURSIVE eiWriteIVHex(_, _)
eiWriteIVHex(ivb, iSrc) ==
    IF ~(iSrc < Len(ivb)) THEN <<>>
    ELSE <<hexchars[(ivb[iSrc + 1] \div 16) + 1], hexchars[(ivb[iSrc + 1] % 16) + 1]>>
         \o eiWriteIVHex(ivb, iSrc + 1)

RECURSIVE Digits(_)
Digits(n) == IF n < 10 THEN <<48 + n>> ELSE Digits(n \div 10) \o <<48 + (n % 10)>>

\* snprintf(offs, sizeof(offs), "%lld", offsLogfile)
snprintfLld(n) == IF n < 0 THEN <<45>> \o Digits(0 - n) ELSE Digits(n)

----------------------------------------------------------------------------
(* The protocol: rsgcryInitCrypt and gcryfileDestruct of a writer and a reader *)

gfNew == [fd |-> -1, readBuf |-> <<>>, readBufIdx |-> 0, readBufMaxIdx |-> 0,
          chdIV |-> NullIV]

\* what the log path holds when the processes start: nothing, the side-file
\* a closed session left, or the one a session left whose header write fell short
NoFile      == [exists |-> FALSE, file |-> <<>>]
OldFiles    ==
    {[exists |-> TRUE,
      file |-> FiletypeLine \o Rec(IVHdr, eiWriteIVHex(v, 0)) \o Rec(ENDHdr, snprintfLld(0))]
        : v \in IVs}
BrokenFile  ==
    [exists |-> TRUE,
     file |-> SubSeq(FiletypeLine, 1, toRead - 1) \o Rec(ENDHdr, snprintfLld(-1))]

ProtoInit(f) ==
    /\ file = f.file
    /\ exists = f.exists
    /\ pc = [p \in Procs |-> "idle"]
    /\ gf = [p \in Procs |-> gfNew]
    /\ fdt = [p \in Procs |-> <<>>]
    /\ nChd = [p \in Procs |-> 0]
    /\ iv = [p \in Procs |-> NullIV]
    /\ iRet = [p \in Procs |-> RS_RET_OK]
    /\ pgf = [p \in Procs |-> NULL]
    /\ readIVRet = [p \in Procs |-> "none"]
    /\ scan = [p \in Procs |-> ScanInit]
    /\ hist = [fresh |-> ~f.exists,
               written |-> {},
               sleeps |-> 0,
               fault |-> [p \in Procs |-> FALSE],
               created |-> FALSE,
               destructCalled |-> FALSE,
               freshIV |-> NullIV,
               rAfter |-> FALSE,
               offs |-> [p \in Procs |-> <<>>],
               endFull |-> [p \in Procs |-> FALSE],
               oob |-> FALSE,
               file0 |-> f.file,
               ends |-> {}]

Init0 == ProtoInit(NoFile)

\* ABORT_FINALIZE(ret) in rsgcryInitCrypt or a callee whose CHKiRet unwinds to it
Abort(p, ret) ==
    /\ iRet' = [iRet EXCEPT ![p] = ret]
    /\ pc' = [pc EXCEPT ![p] = "finalize"]

\* gcryfileConstruct, gcry_cipher_get_algo_blklen and gcry_cipher_open
InitCrypt(p) ==
    /\ pc[p] \in {"idle", "closed", "failed"}
    /\ calls[p] > 0
    /\ calls' = [calls EXCEPT ![p] = @ - 1]
    /\ gf' = [gf EXCEPT ![p] = gfNew]
    /\ iv' = [iv EXCEPT ![p] = NullIV]
    /\ pgf' = [pgf EXCEPT ![p] = NULL]
    /\ readIVRet' = [readIVRet EXCEPT ![p] = "none"]
    /\ scan' = [scan EXCEPT ![p] = ScanInit]
    /\ \E gcryError \in BOOLEAN :
        /\ IF gcryError
           THEN /\ Abort(p, RS_RET_ERR)
                /\ nChd' = nChd
           ELSE /\ iRet' = [iRet EXCEPT ![p] = RS_RET_OK]
                /\ pc' = [pc EXCEPT ![p] = "setkey"]
                /\ nChd' = [nChd EXCEPT ![p] = @ + 1]
        /\ hist' = [hist EXCEPT !.fault[p] = gcryError,
                                !.created = IF p = "w" THEN FALSE ELSE @,
                                !.rAfter = IF p = "r" THEN hist.freshIV # NullIV ELSE @,
                                !.offs[p] = <<>>,
                                !.endFull[p] = FALSE,
                                !.file0 = IF p = "w" THEN file ELSE @]
    /\ UNCHANGED <<file, exists, fdt>>
    /\ UNCHANGED <<keyVars, padVars, codecVars>>

\* gcry_cipher_setkey
CipherSetKey(p) ==
    /\ pc[p] = "setkey"
    /\ \E gcryError \in BOOLEAN :
        IF gcryError
        THEN /\ Abort(p, RS_RET_ERR)
             /\ hist' = [hist EXCEPT !.fault[p] = TRUE]
        ELSE /\ pc' = [pc EXCEPT ![p] = IF openMode(p) = "r" THEN "readIV" ELSE "seedIV"]
             /\ UNCHANGED <<iRet, hist>>
    /\ UNCHANGED <<file, exists, gf, fdt, nChd, iv, pgf, readIVRet, scan>>
    /\ UNCHANGED <<keyVars, padVars, codecVars, calls>>

\* seedIV: blkLength bytes from /dev/urandom, or whatever the buffer held
seedIV(p) ==
    /\ pc[p] = "seedIV"
    /\ \E v \in IVs : iv' = [iv EXCEPT ![p] = v]
    /\ pc' = [pc EXCEPT ![p] = "setiv"]
    /\ UNCHANGED <<file, exists, gf, fdt, nChd, iRet, pgf, readIVRet, scan, hist>>
    /\ UNCHANGED <<keyVars, padVars, codecVars, calls>>

\* rsgcryInitCrypt line 524, "readIV(gf, &iv);": the iRet it goes on with
\* when readIV returned ret (the value is dropped)
rsgcryInitCryptReadIVMutChecked(ret) == ret
rsgcryInitCryptReadIV(ret) == RS_RET_OK

\* readIV returns ret to rsgcryInitCrypt
readIVReturn(p, ret) ==
    /\ readIVRet' = [readIVRet EXCEPT ![p] = ret]
    /\ IF rsgcryInitCryptReadIV(ret) # RS_RET_OK
       THEN Abort(p, rsgcryInitCryptReadIV(ret))
       ELSE /\ pc' = [pc EXCEPT ![p] = "setiv"]
            /\ UNCHANGED iRet

\* the outcomes open(O_RDONLY) can have: <<opened, errno = ENOENT>>
OpenOutcomes == IF exists THEN {<<TRUE, FALSE>>, <<FALSE, FALSE>>}
                ELSE {<<FALSE, TRUE>>, <<FALSE, FALSE>>}

\* readIV: one turn of the do-while loop around eiOpenRead
readIVOpen(p) ==
    /\ pc[p] = "readIV"
    /\ \E o \in OpenOutcomes :
        LET localRet == eiOpenReadRet(o[1], o[2]) IN
        /\ fdt' = [fdt EXCEPT ![p] = IF o[1] THEN OpenFd(@, "r") ELSE @]
        /\ gf' = [gf EXCEPT ![p].fd = IF o[1] THEN LowestFd(fdt[p]) ELSE -1]
        /\ IF localRet = RS_RET_EI_NO_EXISTS
           THEN /\ hist' = [hist EXCEPT !.sleeps = Min(@ + 1, MaxSleeps)]
                /\ UNCHANGED <<pc, readIVRet, iRet>>
           ELSE IF localRet = RS_RET_OK
           THEN /\ pc' = [pc EXCEPT ![p] = "chkft"]
                /\ UNCHANGED <<readIVRet, iRet, hist>>
           ELSE /\ readIVReturn(p, localRet)
                /\ hist' = [hist EXCEPT !.fault[p] = @ \/ (~o[1] /\ ~o[2])]
    /\ UNCHANGED <<file, exists, nChd, iv, pgf, scan>>
    /\ UNCHANGED <<keyVars, padVars, codecVars, calls>>

\* readIV: eiCheckFiletype on the descriptor the loop opened (bNeedClose = 0)
readIVCheckFiletype(p) ==
    /\ pc[p] = "chkft"
    /\ LET d == fdt[p][gf[p].fd]
           hdrBuf == ReadAt(file, d.off, toRead)
           ret == eiCheckFiletypeRet(hdrBuf)
       IN  /\ fdt' = [fdt EXCEPT ![p][gf[p].fd].off = @ + Len(hdrBuf)]
           /\ IF ret = RS_RET_OK
              THEN /\ pc' = [pc EXCEPT ![p] = "getIV"]
                   /\ UNCHANGED <<readIVRet, iRet>>
              ELSE readIVReturn(p, ret)
    /\ UNCHANGED <<file, exists, gf, nChd, iv, pgf, scan, hist>>
    /\ UNCHANGED <<keyVars, padVars, codecVars, calls>>

\* readIV: eiGetIV, one read() of eiRead and the characters eiGetRecord takes
\* from it; u is what malloc left in the iv buffer
readIVGetIV(p) ==
    /\ pc[p] = "getIV"
    /\ \E refill \in {gf[p].readBufIdx >= gf[p].readBufMaxIdx} :
       \E got \in {IF refill THEN eiReadBytes(file, fdt[p][gf[p].fd].off) ELSE gf[p].readBuf} :
       \E r \in {eiGetRecordScan(scan[p], got, IF refill THEN 0 ELSE gf[p].readBufIdx)} :
       \E eof \in {refill /\ got = <<>>} :
           /\ fdt' = [fdt EXCEPT ![p][gf[p].fd].off = IF refill THEN @ + Len(got) ELSE @]
           /\ gf' = [gf EXCEPT ![p].readBuf = IF eof THEN @ ELSE got,
                               ![p].readBufMaxIdx = IF eof THEN @ ELSE Len(got),
                               ![p].readBufIdx = IF eof THEN @ ELSE r.idx]
           /\ scan' = [scan EXCEPT ![p] = IF eof THEN @ ELSE r.st]
           /\ \E u \in IVs :
               IF eof \/ r.st.phase = "err"
               THEN /\ readIVReturn(p, RS_RET_ERR)
                    /\ iv' = [iv EXCEPT ![p] = u]
                    /\ UNCHANGED hist
               ELSE IF r.st.phase = "ok"
               THEN LET g == eiGetIV(r.st.rectype, r.st.value, u, BlkLen) IN
                    /\ readIVReturn(p, IF g.ok THEN RS_RET_OK ELSE RS_RET_ERR)
                    /\ iv' = [iv EXCEPT ![p] = g.iv]
                    /\ hist' = [hist EXCEPT !.oob = @ \/ g.oob]
               ELSE UNCHANGED <<readIVRet, iv, pc, iRet, hist>>
    /\ UNCHANGED <<file, exists, nChd, pgf>>
    /\ UNCHANGED <<keyVars, padVars, codecVars, calls>>

\* gcry_cipher_setiv(gf->chd, iv, gf->blkLength); a NULL iv clears the handle's IV
CipherSetIV(p) ==
    /\ pc[p] = "setiv"
    /\ \E gcryError \in BOOLEAN :
        IF gcryError
        THEN /\ Abort(p, RS_RET_ERR)
             /\ hist' = [hist EXCEPT !.fault[p] = TRUE]
             /\ UNCHANGED <<gf, pgf>>
        ELSE /\ gf' = [gf EXCEPT ![p].chdIV =
                          IF iv[p] = NullIV THEN [k \in 1..BlkLen |-> 0] ELSE iv[p]]
             /\ IF openMode(p) = "w"
                THEN /\ pc' = [pc EXCEPT ![p] = "eiOpenAppend"]
                     /\ UNCHANGED pgf
                ELSE /\ pc' = [pc EXCEPT ![p] = "finalize"]
                     /\ pgf' = [pgf EXCEPT ![p] = "gf"]
             /\ UNCHANGED <<iRet, hist>>
    /\ UNCHANGED <<file, exists, fdt, nChd, iv, readIVRet, scan>>
    /\ UNCHANGED <<keyVars, padVars, codecVars, calls>>

\* eiOpenAppend: eiCheckFiletype's eiOpenRead (gf->fd is -1, so bNeedClose = 1)
eiOpenAppendCheckOpen(p) ==
    /\ pc[p] = "eiOpenAppend"
    /\ \E o \in OpenOutcomes :
        LET localRet == eiOpenReadRet(o[1], o[2]) IN
        /\ fdt' = [fdt EXCEPT ![p] = IF o[1] THEN OpenFd(@, "r") ELSE @]
        /\ IF localRet = RS_RET_OK
           THEN /\ gf' = [gf EXCEPT ![p].fd = IF o[1] THEN LowestFd(fdt[p]) ELSE -1]
                /\ pc' = [pc EXCEPT ![p] = "oa_check"]
                /\ UNCHANGED <<iRet, hist>>
           ELSE IF localRet = RS_RET_EI_NO_EXISTS
           THEN /\ gf' = [gf EXCEPT ![p].fd = IF o[1] THEN LowestFd(fdt[p]) ELSE -1]
                /\ pc' = [pc EXCEPT ![p] = "oa_create"]
                /\ UNCHANGED <<iRet, hist>>
           ELSE /\ gf' = [gf EXCEPT ![p].fd = -1]
                /\ Abort(p, localRet)
                /\ hist' = [hist EXCEPT !.fault[p] = @ \/ (~o[1] /\ ~o[2])]
    /\ UNCHANGED <<file, exists, nChd, iv, pgf, readIVRet, scan>>
    /\ UNCHANGED <<keyVars, padVars, codecVars, calls>>

\* eiOpenAppend: eiCheckFiletype reads the header, closes its descriptor, compares
eiOpenAppendCheckRead(p) ==
    /\ pc[p] = "oa_check"
    /\ LET d == fdt[p][gf[p].fd]
           hdrBuf == ReadAt(file, d.off, toRead)
           localRet == eiCheckFiletypeRet(hdrBuf)
       IN  /\ fdt' = [fdt EXCEPT ![p] = CloseFd(@, gf[p].fd)]
           /\ gf' = [gf EXCEPT ![p].fd = -1]
           /\ IF localRet = RS_RET_OK
              THEN /\ pc' = [pc EXCEPT ![p] = "oa_append"]
                   /\ UNCHANGED iRet
              ELSE Abort(p, localRet)
    /\ UNCHANGED <<file, exists, nChd, iv, pgf, readIVRet, scan, hist>>
    /\ UNCHANGED <<keyVars, padVars, codecVars, calls>>

\* eiOpenAppend: open(O_WRONLY|O_APPEND) of the file that passed the check
eiOpenAppendOpen(p) ==
    /\ pc[p] = "oa_append"
    /\ \E opened \in {TRUE, FALSE} :
        IF opened /\ exists
        THEN /\ fdt' = [fdt EXCEPT ![p] = OpenFd(@, "a")]
             /\ gf' = [gf EXCEPT ![p].fd = LowestFd(fdt[p])]
             /\ pc' = [pc EXCEPT ![p] = "eiWriteIV"]
             /\ UNCHANGED <<iRet, hist>>
        ELSE /\ gf' = [gf EXCEPT ![p].fd = -1]
             /\ Abort(p, RS_RET_EI_OPN_ERR)
             /\ hist' = [hist EXCEPT !.fault[p] = TRUE]
             /\ UNCHANGED fdt
    /\ UNCHANGED <<file, exists, nChd, iv, pgf, readIVRet, scan>>
    /\ UNCHANGED <<keyVars, padVars, codecVars, calls>>

\* eiOpenAppend: open(O_WRONLY|O_CREAT) after the check said "does not exist"
eiOpenAppendCreate(p) ==
    /\ pc[p] = "oa_create"
    /\ \E opened \in {TRUE, FALSE} :
        IF opened
        THEN /\ fdt' = [fdt EXCEPT ![p] = OpenFd(@, "w")]
             /\ gf' = [gf EXCEPT ![p].fd = LowestFd(fdt[p])]
             /\ exists' = TRUE
             /\ pc' = [pc EXCEPT ![p] = "oa_header"]
             /\ hist' = [hist EXCEPT !.created = ~exists]
             /\ UNCHANGED iRet
        ELSE /\ gf' = [gf EXCEPT ![p].fd = -1]
             /\ Abort(p, RS_RET_EI_OPN_ERR)
             /\ hist' = [hist EXCEPT !.fault[p] = TRUE]
             /\ UNCHANGED <<fdt, exists>>
    /\ UNCHANGED <<file, nChd, iv, pgf, readIVRet, scan>>
    /\ UNCHANGED <<keyVars, padVars, codecVars, calls>>

\* eiWriteRec(gf, recHdr, b) by process p, writev returning nwritten
eiWriteRec(p, recHdr, b, nwritten) ==
    LET d == fdt[p][gf[p].fd]
        data == Rec(recHdr, b)
    IN  /\ file' = FileAfterWrite(file, d, data, nwritten)
        /\ fdt' = [fdt EXCEPT ![p][gf[p].fd].off =
                      IF d.flags = "a" THEN Len(file') ELSE @ + Max(nwritten, 0)]

\* eiOpenAppend: the FILETYPE record of a file just created
eiOpenAppendWriteHdr(p) ==
    /\ pc[p] = "oa_header"
    /\ LET towrite == Len(Rec(FiletypeHdr, RSGCRY_FILETYPE_NAME)) IN
       \E nwritten \in WritevResults(fdt[p][gf[p].fd], towrite) :
        /\ eiWriteRec(p, FiletypeHdr, RSGCRY_FILETYPE_NAME, nwritten)
        /\ IF eiWriteRecRet(nwritten, towrite) = RS_RET_OK
           THEN /\ pc' = [pc EXCEPT ![p] = "eiWriteIV"]
                /\ hist' = [hist EXCEPT !.written = @ \cup {"FILETYPE"}]
                /\ UNCHANGED iRet
           ELSE /\ Abort(p, eiWriteRecRet(nwritten, towrite))
                /\ hist' = [hist EXCEPT !.fault[p] = TRUE]
    /\ UNCHANGED <<exists, gf, nChd, iv, pgf, readIVRet, scan>>
    /\ UNCHANGED <<keyVars, padVars, codecVars, calls>>

\* eiWriteIV, and *pgf = gf when it succeeded
eiWriteIV(p) ==
    /\ pc[p] = "eiWriteIV"
    /\ IF BlkLen > HexBufSize \div 2
       THEN /\ Abort(p, RS_RET_ERR)
            /\ UNCHANGED <<file, fdt, pgf, hist>>
       ELSE LET hex == eiWriteIVHex(iv[p], 0)
                towrite == Len(Rec(IVHdr, hex))
            IN  \E nwritten \in WritevResults(fdt[p][gf[p].fd], towrite) :
                 /\ eiWriteRec(p, IVHdr, hex, nwritten)
                 /\ iRet' = [iRet EXCEPT ![p] = eiWriteRecRet(nwritten, towrite)]
                 /\ pc' = [pc EXCEPT ![p] = "finalize"]
                 /\ pgf' = [pgf EXCEPT ![p] = IF iRet'[p] = RS_RET_OK THEN "gf" ELSE @]
                 /\ hist' = [hist EXCEPT !.fault[p] = @ \/ iRet'[p] # RS_RET_OK,
                                         !.written = IF iRet'[p] = RS_RET_OK
                                                     THEN @ \cup {"IV"} ELSE @]
    /\ UNCHANGED <<exists, gf, nChd, iv, readIVRet, scan>>
    /\ UNCHANGED <<keyVars, padVars, codecVars, calls>>

\* eiClose(gf, offsLogfile), the END record's writev returning nwritten
eiClose(p, offsLogfile, nwritten) ==
    IF gf[p].fd = -1
    THEN UNCHANGED <<file, fdt, gf>>
    ELSE /\ file' = FileAfterWrite(file, fdt[p][gf[p].fd],
                                   Rec(ENDHdr, snprintfLld(offsLogfile)), nwritten)
         /\ fdt' = [fdt EXCEPT ![p] = CloseFd(@, gf[p].fd)]
         /\ gf' = [gf EXCEPT ![p].fd = -1, ![p].readBuf = <<>>]

\* what the END record's writev can return in eiClose
eiCloseWrites(p, offsLogfile) ==
    IF gf[p].fd = -1 THEN {0}
    ELSE WritevResults(fdt[p][gf[p].fd], Len(Rec(ENDHdr, snprintfLld(offsLogfile))))

\* finalize_it of rsgcryInitCrypt: free(iv); gcryfileDestruct(gf, -1) on failure
Finalize(p) ==
    /\ pc[p] = "finalize"
    /\ iv' = [iv EXCEPT ![p] = NullIV]
    /\ IF iRet[p] # RS_RET_OK
       THEN \E nwritten \in eiCloseWrites(p, -1) :
             /\ eiClose(p, -1, nwritten)
             /\ pc' = [pc EXCEPT ![p] = "failed"]
             /\ hist' = [hist EXCEPT !.destructCalled = @ \/ p = "w"]
       ELSE /\ pc' = [pc EXCEPT ![p] = "live"]
            /\ hist' = [hist EXCEPT !.freshIV =
                           IF p = "w" /\ hist.created /\ @ = NullIV THEN gf[p].chdIV ELSE @]
            /\ UNCHANGED <<file, fdt, gf>>
    /\ UNCHANGED <<exists, nChd, iRet, pgf, readIVRet, scan>>
    /\ UNCHANGED <<keyVars, padVars, codecVars, calls>>

\* gcryfileDestruct(gf, offsLogfile) by the caller that holds the session
gcryfileDestruct(p) ==
    /\ pc[p] = "live"
    /\ \E offsLogfile \in Offsets :
        \E nwritten \in eiCloseWrites(p, offsLogfile) :
         /\ eiClose(p, offsLogfile, nwritten)
         /\ hist' = [hist EXCEPT
                        !.destructCalled = @ \/ p = "w",
                        !.offs[p] = <<offsLogfile>>,
                        !.endFull[p] = (gf[p].fd # -1 /\ nwritten =
                                          Len(Rec(ENDHdr, snprintfLld(offsLogfile)))),
                        !.ends = IF p = "w" THEN @ \cup {offsLogfile} ELSE @]
    /\ pc' = [pc EXCEPT ![p] = "closed"]
    /\ UNCHANGED <<exists, nChd, iv, iRet, pgf, readIVRet, scan>>
    /\ UNCHANGED <<keyVars, padVars, codecVars, calls>>

----------------------------------------------------------------------------
(* The context: gcryCtxNew, rsgcrySetAlgo, rsgcrySetMode, rsgcrySetKey *)

\* rsgcryAlgoname2Algo: the cipher a name selects, GCRY_CIPHER_NONE if unknown
rsgcryAlgoname2Algo(algoname) ==
    IF algoname \in {"3DES", "AES128", "AES192", "AES256"}
    THEN "GCRY_CIPHER_" \o algoname ELSE "GCRY_CIPHER_NONE"

\* rsgcryModename2Mode: the mode a name selects, GCRY_CIPHER_MODE_NONE if unknown
rsgcryModename2Mode(modename) ==
    IF modename \in {"CBC", "ECB"}
    THEN "GCRY_CIPHER_MODE_" \o modename ELSE "GCRY_CIPHER_MODE_NONE"

\* gcry_cipher_get_algo_keylen
gcry_cipher_get_algo_keylen(algo) ==
    CASE algo = "GCRY_CIPHER_3DES"   -> 24
      [] algo = "GCRY_CIPHER_AES128" -> 16
      [] algo = "GCRY_CIPHER_AES192" -> 24
      [] algo = "GCRY_CIPHER_AES256" -> 32
      [] OTHER -> 0

AlgoNames == {"3DES", "AES128", "AES256", "rot13"}
ModeNames == {"CBC", "ECB", "none"}
KeyLens   == {0, 16, 17, 24, 32}
KeyFill   == {1, 2}
\* the (key, keyLen) pairs a caller passes: keyLen bytes of one value
KeyArgs   == {[key |-> [k \in 1..n |-> b], keyLen |-> n] : n \in KeyLens, b \in KeyFill}

gcryCtxNew == [algo |-> "GCRY_CIPHER_AES128", mode |-> "GCRY_CIPHER_MODE_CBC",
               key |-> <<>>, keyLen |-> 0]

\* uint16_t reqKeyLen = gcry_cipher_get_algo_keylen(ctx->algo)
reqKeyLen(c) == gcry_cipher_get_algo_keylen(c.algo) % 65536

\* the value rsgcrySetKey returns
rsgcrySetKeyRet(c, keyLen) ==
    IF keyLen # reqKeyLen(c) THEN reqKeyLen(c) ELSE 0

\* the context rsgcrySetKey leaves
rsgcrySetKeyCtxMutStoreFirst(c, key, keyLen) ==
    [c EXCEPT !.keyLen = keyLen, !.key = SubSeq(key, 1, keyLen)]
rsgcrySetKeyCtx(c, key, keyLen) ==
    IF keyLen # reqKeyLen(c) THEN c
    ELSE [c EXCEPT !.keyLen = keyLen, !.key = SubSeq(key, 1, keyLen)]

KeyInit0 ==
    /\ ctx = gcryCtxNew
    /\ kcall = [op |-> "gcryCtxNew", key |-> <<>>, keyLen |-> 0, r |-> 0, before |-> gcryCtxNew]

rsgcrySetKey ==
    /\ \E a \in KeyArgs :
        /\ ctx' = rsgcrySetKeyCtx(ctx, a.key, a.keyLen)
        /\ kcall' = [op |-> "rsgcrySetKey", key |-> a.key, keyLen |-> a.keyLen,
                     r |-> rsgcrySetKeyRet(ctx, a.keyLen), before |-> ctx]
    /\ UNCHANGED <<protoVars, padVars, codecVars>>

rsgcrySetAlgo ==
    /\ \E algoname \in AlgoNames :
        LET algo == rsgcryAlgoname2Algo(algoname) IN
        /\ ctx' = IF algo = "GCRY_CIPHER_NONE" THEN ctx ELSE [ctx EXCEPT !.algo = algo]
        /\ kcall' = [op |-> "rsgcrySetAlgo", key |-> <<>>, keyLen |-> 0,
                     r |-> IF algo = "GCRY_CIPHER_NONE" THEN 1 ELSE 0, before |-> ctx]
    /\ UNCHANGED <<protoVars, padVars, codecVars>>

rsgcrySetMode ==
    /\ \E modename \in ModeNames :
        LET mode == rsgcryModename2Mode(modename) IN
        /\ ctx' = IF mode = "GCRY_CIPHER_MODE_NONE" THEN ctx ELSE [ctx EXCEPT !.mode = mode]
        /\ kcall' = [op |-> "rsgcrySetMode", key |-> <<>>, keyLen |-> 0,
                     r |-> IF mode = "GCRY_CIPHER_MODE_NONE" THEN 1 ELSE 0, before |-> ctx]
    /\ UNCHANGED <<protoVars, padVars, codecVars>>

----------------------------------------------------------------------------
(* Padding and the cipher calls on a caller's buffer *)

MaxLen == 3     \* largest *len a caller passes
MaxBlk == 2     \* largest block length

PadBytes == {0, 65, 66}
Cap      == MaxLen + MaxBlk     \* bytes of the caller's allocation

\* addPadding: nPad
nPadMutNoOuterMod(blkLength, plen) == blkLength - (plen % blkLength)
nPad(blkLength, plen) == (blkLength - (plen % blkLength)) % blkLength

\* addPadding(pF, buf, plen): the buffer and length it leaves
addPadding(blkLength, b, plen) ==
    LET n == nPad(blkLength, plen) IN
    [buf |-> [k \in 1..Len(b) |-> IF k > plen /\ k <= plen + n THEN 0 ELSE b[k]],
     len |-> plen + n]

\* strchr((char*)buf, 0x00) - buf: the first zero byte of the allocation; with no
\* zero byte in it the search runs past its end and stops wherever memory holds one
frstNUL(b) ==
    IF \E k \in 1..Len(b) : b[k] = 0
    THEN {(CHOOSE k \in 1..Len(b) : b[k] = 0 /\ \A m \in 1..(k - 1) : b[m] # 0) - 1}
    ELSE {Len(b), Len(b) + 1}

\* the while loop of removePadding
RECURSIVE removePaddingLoop(_, _, _, _)
removePaddingLoop(b, iSrc, iDst, plen) ==
    IF ~(iSrc < plen) THEN [buf |-> b, len |-> iDst]
    ELSE IF b[iSrc + 1] # 0
         THEN removePaddingLoop([b EXCEPT ![iDst + 1] = b[iSrc + 1]], iSrc + 1, iDst + 1, plen)
         ELSE removePaddingLoop(b, iSrc + 1, iDst, plen)

\* removePadding(buf, plen) when strchr returned buf + frst (lengths here are
\* far below 2^32, so the cast of *plen to unsigned keeps its value)
removePadding(b, plen, frst) == removePaddingLoop(b, frst, frst, plen)

\* gcry_cipher_encrypt / gcry_cipher_decrypt in place over n bytes: a chained
\* byte substitution, each block keyed by the ciphertext block before it (the
\* first by a fixed IV byte)
RECURSIVE gcry_cipher_encrypt_byte(_, _, _)
gcry_cipher_encrypt_byte(b, k, blkLength) ==
    (b[k] + 101 + (IF k <= blkLength THEN 7
                   ELSE gcry_cipher_encrypt_byte(b, k - blkLength, blkLength))) % 256

gcry_cipher_encrypt(b, n, blkLength) ==
    [k \in 1..Len(b) |-> IF k <= n THEN gcry_cipher_encrypt_byte(b, k, blkLength) ELSE b[k]]

gcry_cipher_decrypt(b, n, blkLength) ==
    [k \in 1..Len(b) |->
        IF k <= n
        THEN (b[k] + 512 - 101 - (IF k <= blkLength THEN 7 ELSE b[k - blkLength])) % 256
        ELSE b[k]]

PadInit0 ==
    /\ pF \in [blkLength : 1..MaxBlk]
    /\ len \in 0..MaxLen
    /\ buf \in [1..Cap -> PadBytes]
    /\ pcall = [op |-> "none", ret |-> RS_RET_OK, buf0 |-> buf, len0 |-> len,
                padBuf |-> <<>>, padLen |-> 0, encLen |-> 0]

\* a direct call of addPadding
addPaddingCall ==
    /\ pcall.op = "none"
    /\ LET r == addPadding(pF.blkLength, buf, len) IN
        /\ buf' = r.buf
        /\ len' = r.len
        /\ pcall' = [pcall EXCEPT !.op = "addPadding", !.padBuf = r.buf, !.padLen = r.len]
    /\ UNCHANGED pF
    /\ UNCHANGED <<protoVars, keyVars, codecVars>>

\* a direct call of removePadding
removePaddingCall ==
    /\ pcall.op = "none"
    /\ \E frst \in frstNUL(buf) :
        LET r == removePadding(buf, len, frst) IN
        /\ buf' = r.buf
        /\ len' = r.len
        /\ pcall' = [pcall EXCEPT !.op = "removePadding"]
    /\ UNCHANGED pF
    /\ UNCHANGED <<protoVars, keyVars, codecVars>>

rsgcryEncrypt ==
    /\ pcall.op = "none"
    /\ IF len = 0
       THEN /\ pcall' = [pcall EXCEPT !.op = "rsgcryEncrypt", !.encLen = len]
            /\ UNCHANGED <<buf, len>>
       ELSE LET r == addPadding(pF.blkLength, buf, len) IN
            \E gcryError \in BOOLEAN :
              /\ len' = r.len
              /\ buf' = IF gcryError THEN r.buf
                        ELSE gcry_cipher_encrypt(r.buf, r.len, pF.blkLength)
              /\ pcall' = [pcall EXCEPT !.op = "rsgcryEncrypt",
                                        !.ret = IF gcryError THEN RS_RET_ERR ELSE RS_RET_OK,
                                        !.padBuf = r.buf, !.padLen = r.len, !.encLen = r.len]
    /\ UNCHANGED pF
    /\ UNCHANGED <<protoVars, keyVars, codecVars>>

rsgcryDecrypt ==
    /\ pcall.op = "rsgcryEncrypt"
    /\ pcall.ret = RS_RET_OK
    /\ \E gcryError \in BOOLEAN :
        IF gcryError
        THEN /\ pcall' = [pcall EXCEPT !.op = "rsgcryDecrypt", !.ret = RS_RET_ERR]
             /\ UNCHANGED <<buf, len>>
        ELSE LET plain == gcry_cipher_decrypt(buf, len, pF.blkLength) IN
             \E frst \in frstNUL(plain) :
               LET r == removePadding(plain, len, frst) IN
               /\ buf' = r.buf
               /\ len' = r.len
               /\ pcall' = [pcall EXCEPT !.op = "rsgcryDecrypt"]
    /\ UNCHANGED pF
    /\ UNCHANGED <<protoVars, keyVars, codecVars>>

----------------------------------------------------------------------------
(* eiGetRecord run on one record text, one loop iteration per step *)

\* lengths of the type and of the value of the record written
RecTypeLens  == {0, 2, EIF_MAX_RECTYPE_LEN - 1, EIF_MAX_RECTYPE_LEN, EIF_MAX_RECTYPE_LEN + 1}
RecValueLens == {0, 4, EIF_MAX_VALUE_LEN - 4, EIF_MAX_VALUE_LEN - 3,
                 EIF_MAX_VALUE_LEN, EIF_MAX_VALUE_LEN + 1}
\* a type of tl bytes ("IV" and then letters) and a value of vl bytes (digits)
RecType(tl)  == [k \in 1..tl |-> IF k = 1 THEN 73 ELSE IF k = 2 THEN 86 ELSE 97]
RecValue(vl) == [k \in 1..vl |-> 48 + (k % 10)]
\* what follows the record in the file
RecTrails    == {<<>>, Rec(ENDHdr, snprintfLld(0))}
\* the record as eiWriteRec writes it: recHdr ends with the colon
RecText(tl, vl) == Rec(RecType(tl) \o <<58>>, RecValue(vl))
\* the bytes missing at the end of the file: none, the LF, all behind the type, all
RecCuts(tl, vl) == {0, 1, vl + 2, tl + vl + 2}

\* eiGetRecord when eiReadChar returned EOF: the loop breaks, c is no delimiter
eiGetRecordAtEOFMutPartial(st) == [st EXCEPT !.phase = "ok"]
eiGetRecordAtEOF(st) == [st EXCEPT !.phase = "err"]

RecInit0 ==
    /\ \E tl \in RecTypeLens, vl \in RecValueLens :
       \E cut \in RecCuts(tl, vl), trail \in RecTrails :
        /\ cut # 0 => trail = <<>>
        /\ rcall = [op |-> "eiGetRecord", tl |-> tl, vl |-> vl, cut |-> cut, trail |-> trail]
        /\ file = SubSeq(RecText(tl, vl), 1, tl + vl + 2 - cut) \o trail
    /\ exists = TRUE
    /\ pc = [p \in Procs |-> IF p = "r" THEN "getRecord" ELSE "idle"]
    /\ fdt = [p \in Procs |-> IF p = "r" THEN OpenFd(<<>>, "r") ELSE <<>>]
    /\ gf = [p \in Procs |-> IF p = "r" THEN [gfNew EXCEPT !.fd = LowestFd(<<>>)] ELSE gfNew]
    /\ nChd = [p \in Procs |-> 0]
    /\ iv = [p \in Procs |-> NullIV]
    /\ iRet = [p \in Procs |-> RS_RET_OK]
    /\ pgf = [p \in Procs |-> NULL]
    /\ readIVRet = [p \in Procs |-> "none"]
    /\ scan = [p \in Procs |-> ScanInit]
    /\ hist = [op |-> "none"]
    /\ calls = [p \in Procs |-> 0]

\* one turn of a loop of eiGetRecord: the loop condition, eiReadChar (with
\* eiRead when the read buffer is used up) and the loop body
eiGetRecordChar(p) ==
    /\ pc[p] = "getRecord"
    /\ \E atLimit \in {eiGetRecordScan(scan[p], <<>>, 0).st.phase = "err"} :
       \E refill \in {~atLimit /\ gf[p].readBufIdx >= gf[p].readBufMaxIdx} :
       \E got \in {IF refill THEN eiReadBytes(file, fdt[p][gf[p].fd].off) ELSE gf[p].readBuf} :
       \E eof \in {refill /\ got = <<>>} :
       \E idx \in {IF refill THEN 0 ELSE gf[p].readBufIdx} :
       \E st \in {IF atLimit THEN [scan[p] EXCEPT !.phase = "err"]
                  ELSE IF eof THEN eiGetRecordAtEOF(scan[p])
                  ELSE eiGetRecordScan(scan[p], <<got[idx + 1]>>, 0).st} :
           /\ fdt' = [fdt EXCEPT ![p][gf[p].fd].off = IF refill THEN @ + Len(got) ELSE @]
           /\ gf' = [gf EXCEPT ![p].readBuf = IF eof \/ atLimit THEN @ ELSE got,
                               ![p].readBufMaxIdx = IF eof \/ atLimit THEN @ ELSE Len(got),
                               ![p].readBufIdx = IF eof \/ atLimit THEN @ ELSE idx + 1]
           /\ scan' = [scan EXCEPT ![p] = st]
           /\ pc' = [pc EXCEPT ![p] = IF st.phase \in {"ok", "err"} THEN "recDone" ELSE @]
    /\ UNCHANGED <<file, exists, nChd, iv, iRet, pgf, readIVRet, hist, calls>>
    /\ UNCHANGED <<keyVars, padVars, hcall, rcall>>

----------------------------------------------------------------------------
(* eiWriteIV and eiGetIV run on one IV or on one IV record value *)

\* bytes an IV is made of: every high and every low nibble occurs
HexBytes == {17 * k : k \in 0..15} \cup {9, 10, 160, 175}
\* values of an IV record: hex digits, at most one place holding another character
HexDigits == {48, 102}
NonHex    == {47, 58, 65, 70, 96, 103}
HexTexts  ==
    UNION {
        [1..n -> HexDigits]
        \cup {[t EXCEPT ![k] = c] : t \in [1..n -> HexDigits], k \in 1..n, c \in NonHex}
        : n \in 0..(2 * BlkLen + 2)}

HexInit0 ==
    \/ \E b \in [1..BlkLen -> HexBytes] :
        hcall = [op |-> "iv", iv |-> b, value |-> <<>>]
    \/ \E t \in HexTexts :
        hcall = [op |-> "value", iv |-> <<>>, value |-> t]

\* eiWriteIV(gf, iv): the value it hands to eiWriteRec
eiWriteIVCall ==
    /\ hcall.op = "iv"
    /\ ~(BlkLen > HexBufSize \div 2)
    /\ hcall' = [hcall EXCEPT !.op = "eiWriteIV", !.value = eiWriteIVHex(hcall.iv, 0)]
    /\ UNCHANGED <<protoVars, keyVars, padVars, rcall>>

\* eiGetIV(gf, iv, blkLength) on an IV record with that value; u is what
\* malloc left in the iv buffer
eiGetIVCall ==
    /\ hcall.op \in {"eiWriteIV", "value"}
    /\ \E u \in IVs :
        hcall' = [op |-> "eiGetIV", iv |-> hcall.iv, value |-> hcall.value,
                  written |-> hcall.op = "eiWriteIV",
                  res |-> eiGetIV(IVType, hcall.value, u, BlkLen)]
    /\ UNCHANGED <<protoVars, keyVars, padVars, rcall>>

----------------------------------------------------------------------------
(* The specifications *)

NoCodec  == rcall = [op |-> "none"] /\ hcall = [op |-> "none"]

NoKeyPad == /\ KeyInit0
            /\ pF = [blkLength |-> 1] /\ len = 0 /\ buf = <<>> /\ pcall = [op |-> "none"]
            /\ NoCodec

\* a writer and a reader on the same log path
Init ==
    /\ \E f \in {NoFile, BrokenFile} \cup OldFiles : ProtoInit(f)
    /\ calls = [p \in Procs |-> IF p = "w" THEN MaxSessions ELSE 1]
    /\ NoKeyPad

Writer ==
    \/ InitCrypt("w")
    \/ CipherSetKey("w")
    \/ seedIV("w")
    \/ CipherSetIV("w")
    \/ eiOpenAppendCheckOpen("w")
    \/ eiOpenAppendCheckRead("w")
    \/ eiOpenAppendOpen("w")
    \/ eiOpenAppendCreate("w")
    \/ eiOpenAppendWriteHdr("w")
    \/ eiWriteIV("w")
    \/ Finalize("w")
    \/ gcryfileDestruct("w")

Reader ==
    \/ InitCrypt("r")
    \/ CipherSetKey("r")
    \/ readIVOpen("r")
    \/ readIVCheckFiletype("r")
    \/ readIVGetIV("r")
    \/ CipherSetIV("r")
    \/ Finalize("r")
    \/ gcryfileDestruct("r")

Next == Writer \/ Reader

Spec == Init /\ [][Next]_vars

\* the reader process is scheduled again and again
LiveSpec == Spec /\ WF_vars(Reader)

\* a writer alone, opening and closing sessions on the same log path
WriterInit == Init0 /\ calls = [p \in Procs |-> IF p = "w" THEN MaxSessions + 1 ELSE 0]
              /\ NoKeyPad

WriterSpec == WriterInit /\ [][Writer]_vars

KeyInit == KeyInit0 /\ Init0 /\ calls = [p \in Procs |-> 0]
           /\ pF = [blkLength |-> 1] /\ len = 0 /\ buf = <<>> /\ pcall = [op |-> "none"]
           /\ NoCodec

KeyNext == rsgcrySetKey \/ rsgcrySetAlgo \/ rsgcrySetMode

KeySpec == KeyInit /\ [][KeyNext]_vars

PadInit == PadInit0 /\ Init0 /\ calls = [p \in Procs |-> 0] /\ KeyInit0 /\ NoCodec

PadNext == addPaddingCall \/ removePaddingCall \/ rsgcryEncrypt \/ rsgcryDecrypt

PadSpec == PadInit /\ [][PadNext]_vars

\* eiGetRecord alone, on a file that holds one record or a part of one
RecInit == RecInit0 /\ KeyInit0 /\ hcall = [op |-> "none"]
           /\ pF = [blkLength |-> 1] /\ len = 0 /\ buf = <<>> /\ pcall = [op |-> "none"]

RecNext == eiGetRecordChar("r")

RecSpec == RecInit /\ [][RecNext]_vars

\* the hex codec of the IV record alone
HexInit == HexInit0 /\ Init0 /\ calls = [p \in Procs |-> 0] /\ KeyInit0
           /\ pF = [blkLength |-> 1] /\ len = 0 /\ buf = <<>> /\ pcall = [op |-> "none"]
           /\ rcall = [op |-> "none"]

HexNext == eiWriteIVCall \/ eiGetIVCall

HexSpec == HexInit /\ [][HexNext]_vars

----------------------------------------------------------------------------
(* Properties *)

\* rsgcryInitCrypt of process p has returned
Returned(p) == pc[p] \in {"live", "closed", "failed"}

IsLowerHexDigit(c) == c \in (48..57) \cup (97..102)

\* offsets as the decimal text expected in an END record
DecimalText(x) ==
    CASE x = 0     -> <<48>>
      [] x = 12345 -> <<49, 50, 51, 52, 53>>

EndsWith(f, tail) ==
    Len(f) >= Len(tail) /\ SubSeq(f, Len(f) - Len(tail) + 1, Len(f)) = tail

\* some line of f starts with "END:"
HasENDLine(f) ==
    \E k \in 1..Len(f) :
        /\ k = 1 \/ f[k - 1] = 10
        /\ k + 3 <= Len(f)
        /\ SubSeq(f, k, k + 3) = ENDHdr

\* C1: with the side-file absent at the start, whenever the reader's
\* rsgcryInitCrypt has returned success the writer has written both the
\* FILETYPE header and the IV record.
C1_ReaderSucceedsOnlyAfterWriter ==
    (hist.fresh /\ Returned("r") /\ iRet["r"] = RS_RET_OK)
        => {"FILETYPE", "IV"} \subseteq hist.written

\* C2: a read-mode rsgcryInitCrypt called after a write-mode one succeeded on
\* a fresh path, and hit by no failure of open or the cipher library, returns
\* success, and the IV on its cipher handle has blkLength bytes and is the IV
\* the writer generated and wrote.
C2_IVRecovered ==
    (hist.rAfter /\ Returned("r") /\ ~hist.fault["r"])
        => /\ iRet["r"] = RS_RET_OK
           /\ pgf["r"] = "gf"
           /\ readIVRet["r"] = RS_RET_OK
           /\ Len(gf["r"].chdIV) = BlkLen
           /\ gf["r"].chdIV = hist.freshIV

C2_Witness ==
    /\ hist.rAfter /\ pc["r"] = "live" /\ ~hist.fault["r"]
    /\ gf["r"].chdIV = hist.freshIV /\ hist.freshIV # NullIV
    /\ pc["w"] = "closed"

\* C3: the reader's rsgcryInitCrypt has returned success or "does not exist"
\* only in states where the side-file exists.
C3_NoReturnWhileMissing ==
    (Returned("r") /\ iRet["r"] \in {RS_RET_OK, RS_RET_EI_NO_EXISTS}
        /\ readIVRet["r"] # "none")
        => exists

\* C4: a reader that slept in the poll loop because the side-file was missing
\* and is still in the loop when the file exists eventually returns from
\* rsgcryInitCrypt, with success unless open or the cipher library failed on it.
C4_ReaderReturnsSuccess ==
    (pc["r"] = "readIV" /\ hist.sleeps > 0 /\ exists)
        ~> (Returned("r") /\ (iRet["r"] = RS_RET_OK \/ hist.fault["r"]))

C4_Witness ==
    /\ hist.fresh /\ hist.sleeps > 0 /\ pc["r"] = "live" /\ ~hist.fault["r"]
    /\ iRet["r"] = RS_RET_OK /\ exists

\* C5: when readIV failed in a read-mode rsgcryInitCrypt (open error, header
\* mismatch or short read, first record not a valid IV record), the call has
\* returned a non-OK value and has handed no session to the caller.
C5_ReadFailureIsFatal ==
    (Returned("r") /\ readIVRet["r"] \notin {"none", RS_RET_OK})
        => (iRet["r"] # RS_RET_OK /\ pgf["r"] = NULL)

\* C6: when rsgcryInitCrypt has returned failure, the side-file descriptor is
\* closed and the cipher handle it opened is closed.
C6_FailureReleasesAll ==
    \A p \in Procs :
        pc[p] = "failed" => (gf[p].fd = -1 /\ fdt[p] = <<>> /\ nChd[p] = 0)

\* C7: after a successful write-mode rsgcryInitCrypt on a fresh path the
\* side-file is the FILETYPE line followed by one IV line of 2*blkLength hex
\* characters; on a fresh path the file has no END line before
\* gcryfileDestruct is called; after gcryfileDestruct(gf, X) whose END write
\* was not cut short the file's last line is END:<X in decimal>.
C7_WriterLifecycle ==
    /\ (hist.created /\ pc["w"] = "live")
         => LET hdr == FiletypeHdr \o RSGCRY_FILETYPE_NAME \o <<10>> \o IVHdr
                n == Len(hdr)
            IN  /\ Len(file) = n + 2 * BlkLen + 1
                /\ SubSeq(file, 1, n) = hdr
                /\ \A k \in 1..(2 * BlkLen) : IsLowerHexDigit(file[n + k])
                /\ file[Len(file)] = 10
    /\ (hist.fresh /\ ~hist.destructCalled) => ~HasENDLine(file)
    /\ (pc["w"] = "closed" /\ hist.endFull["w"])
         => EndsWith(file, <<10>> \o ENDHdr \o DecimalText(hist.offs["w"][1]) \o <<10>>)

C7_Witness ==
    /\ hist.created /\ pc["w"] = "closed" /\ hist.endFull["w"]
    /\ hist.offs["w"] = <<12345>>
    /\ HasENDLine(file)

\* C8: rsgcrySetKey returns 0 exactly when keyLen is the algorithm's required
\* key length, and then the context holds a copy of the key and its length;
\* otherwise it returns the required length, a positive value, and the context
\* is as it was.
C8_KeyLengthCheck ==
    kcall.op = "rsgcrySetKey" =>
        LET required == gcry_cipher_get_algo_keylen(kcall.before.algo) IN
        /\ (kcall.r = 0) <=> (kcall.keyLen = required)
        /\ kcall.r = 0 => /\ ctx.key = kcall.key
                          /\ ctx.keyLen = kcall.keyLen
                          /\ ctx.algo = kcall.before.algo
                          /\ ctx.mode = kcall.before.mode
        /\ kcall.r # 0 => /\ kcall.r = required
                          /\ kcall.r > 0
                          /\ ctx = kcall.before

C8_Witness ==
    /\ kcall.op = "rsgcrySetKey" /\ kcall.r = 24 /\ kcall.keyLen = 16
    /\ ctx.key # <<>> /\ ctx = kcall.before

\* C9: for a buffer whose first L bytes hold no zero byte, rsgcryEncrypt
\* followed by rsgcryDecrypt leaves the original L bytes and the length L.
C9_RoundTrip ==
    (pcall.op = "rsgcryDecrypt" /\ pcall.ret = RS_RET_OK
        /\ \A k \in 1..pcall.len0 : pcall.buf0[k] # 0)
        => /\ len = pcall.len0
           /\ SubSeq(buf, 1, pcall.len0) = SubSeq(pcall.buf0, 1, pcall.len0)

\* C10: addPadding appends exactly (B - L mod B) mod B zero bytes: the new
\* length is a multiple of B, between 0 and B - 1 bytes are added, and the
\* first L bytes (and the bytes behind the padding) are unchanged.
C10_Padding ==
    (pcall.op = "addPadding" \/ (pcall.op = "rsgcryEncrypt" /\ pcall.len0 # 0)) =>
        LET B == pF.blkLength
            L == pcall.len0
            added == pcall.padLen - L
        IN  /\ pcall.padLen % B = 0
            /\ added >= 0 /\ added < B
            /\ (L % B = 0) => added = 0
            /\ (L % B # 0) => added = B - (L % B)
            /\ \A k \in 1..Cap :
                  pcall.padBuf[k] = IF k > L /\ k <= L + added THEN 0 ELSE pcall.buf0[k]

C10_Witness ==
    /\ pcall.op = "addPadding" /\ pcall.len0 % pF.blkLength # 0
    /\ pcall.len0 > 0 /\ pcall.padLen > pcall.len0
    /\ pcall.buf0[pcall.len0 + 1] # 0

\* eiGetRecord has returned
RecDone == rcall.op = "eiGetRecord" /\ pc["r"] = "recDone"

\* bytes of the file eiReadChar has handed out
Consumed == fdt["r"][gf["r"].fd].off - (gf["r"].readBufMaxIdx - gf["r"].readBufIdx)

\* C11: for a record written whole as <type>:<value>LF, eiGetRecord succeeds
\* and returns exactly the written type and value when the type has at most
\* 31 bytes and the value at most 1023 bytes, and fails when the type has
\* more than 31 bytes or the value more than 1023 bytes.
C11_RecordSizeLimits ==
    (RecDone /\ rcall.cut = 0) =>
        /\ (rcall.tl <= 31 /\ rcall.vl <= 1023)
             => /\ scan["r"].phase = "ok"
                /\ scan["r"].rectype = RecType(rcall.tl)
                /\ scan["r"].value = RecValue(rcall.vl)
        /\ (rcall.tl > 31 \/ rcall.vl > 1023) => scan["r"].phase = "err"

\* C19: eiGetRecord returns success only after it consumed a complete record,
\* a type closed by ':' and a value closed by LF; when the input ends before
\* a delimiter it returns an error; and the read cursor always satisfies
\* 0 <= readBufIdx <= readBufMaxIdx <= 4096.
C19_AllOrNothingRead ==
    rcall.op = "eiGetRecord" =>
        /\ 0 <= gf["r"].readBufIdx
        /\ gf["r"].readBufIdx <= gf["r"].readBufMaxIdx
        /\ gf["r"].readBufMaxIdx <= 4096
        /\ (RecDone /\ scan["r"].phase = "ok")
             => /\ SubSeq(file, 1, Consumed)
                     = scan["r"].rectype \o <<58>> \o scan["r"].value \o <<10>>
                /\ \A k \in 1..Len(scan["r"].rectype) : scan["r"].rectype[k] # 58
                /\ \A k \in 1..Len(scan["r"].value) : scan["r"].value[k] # 10
        /\ (RecDone /\ rcall.cut # 0) => scan["r"].phase = "err"

C19_Witness ==
    /\ RecDone /\ scan["r"].phase = "ok" /\ rcall.trail # <<>>
    /\ scan["r"].rectype = <<73, 86>> /\ Len(scan["r"].value) = 4
    /\ Consumed < Len(file)

\* C12: the text eiWriteIV produces for an IV of blkLength bytes has
\* 2*blkLength lower-case hex characters, and eiGetIV with expected length
\* blkLength decodes it to exactly the original bytes.
C12_HexRoundTrip ==
    (hcall.op = "eiGetIV" /\ hcall.written) =>
        /\ Len(hcall.value) = 2 * BlkLen
        /\ \A k \in 1..Len(hcall.value) : IsLowerHexDigit(hcall.value[k])
        /\ hcall.res.ok
        /\ hcall.res.iv = hcall.iv
        /\ ~hcall.res.oob

C12_Witness ==
    /\ hcall.op = "eiGetIV" /\ hcall.written
    /\ hcall.iv[1] = 175 /\ hcall.value[1] = 97 /\ hcall.value[2] = 102
    /\ hcall.res.iv = hcall.iv

\* C13: eiGetIV fails, and stores no byte outside the iv buffer, for every
\* value whose length is odd, whose decoded length is not blkLength, or that
\* holds a character that is no hex digit.
C13_HexDecodeRejects ==
    (/\ hcall.op = "eiGetIV"
     /\ \/ Len(hcall.value) % 2 = 1
        \/ Len(hcall.value) # 2 * BlkLen
        \/ \E k \in 1..Len(hcall.value) : ~IsLowerHexDigit(hcall.value[k]))
        => (~hcall.res.ok /\ ~hcall.res.oob)

\* where the lines of f start, and the line that starts at k (without its LF)
LineStarts(f) == {1} \cup {k + 1 : k \in {m \in 1..(Len(f) - 1) : f[m] = 10}}
LineEnd(f, k) == IF \E m \in k..Len(f) : f[m] = 10
                 THEN (CHOOSE m \in k..Len(f) : f[m] = 10 /\ \A n \in k..(m - 1) : f[n] # 10) - 1
                 ELSE Len(f)
LineAt(f, k)  == SubSeq(f, k, LineEnd(f, k))
StartsWith(l, h) == Len(l) >= Len(h) /\ SubSeq(l, 1, Len(h)) = h
\* the start of the line before the one that starts at k
PrevLine(f, k) == CHOOSE m \in LineStarts(f) : m < k /\ \A n \in LineStarts(f) : n < k => n <= m

\* f is the FILETYPE line followed by IV and END lines in strict alternation
\* that starts with IV, each line closed by LF
SideFileShape(f) ==
    /\ StartsWith(f, FiletypeHdr \o RSGCRY_FILETYPE_NAME \o <<10>>)
    /\ f[Len(f)] = 10
    /\ \A k \in LineStarts(f) \ {1} :
        LET l == LineAt(f, k)
            before == LineAt(f, PrevLine(f, k))
        IN  \/ /\ StartsWith(l, IVHdr)
               /\ PrevLine(f, k) = 1 \/ StartsWith(before, ENDHdr)
            \/ /\ StartsWith(l, ENDHdr)
               /\ StartsWith(before, IVHdr)

\* C14: after any sequence of write-mode rsgcryInitCrypt / gcryfileDestruct
\* cycles on a log path, failed calls included, the side-file is the FILETYPE
\* line followed by IV and END records in strict alternation starting with
\* IV; and a call that found an existing file failing the filetype check has
\* failed and left the file as it was.
C14_SideFileShape ==
    /\ (pc["w"] \in {"live", "closed", "failed"} /\ exists) => SideFileShape(file)
    /\ (pc["w"] \in {"finalize", "failed"} /\ iRet["w"] = RS_RET_EI_INVLD_FILE)
         => file = hist.file0

\* C15: every END record in the side-file carries, in decimal, an offset a
\* caller passed to gcryfileDestruct on a constructed session; no END record
\* comes from a failed rsgcryInitCrypt and no END value is negative.
C15_ENDProvenance ==
    \A k \in LineStarts(file) :
        StartsWith(LineAt(file, k), ENDHdr)
            => /\ \E x \in hist.ends : LineAt(file, k) = ENDHdr \o DecimalText(x)
               /\ ~StartsWith(LineAt(file, k), ENDHdr \o <<45>>)

NonZero(x) == x # 0

\* C16: removePadding on a buffer of logical length L leaves buffer and L
\* unchanged when none of the first L bytes is zero, whatever follows them;
\* otherwise the non-zero bytes of the first L are kept in their order, the
\* zero bytes are removed and the new length is L minus their number; the
\* resulting length is at most L.
C16_Unpad ==
    pcall.op = "removePadding" =>
        LET L == pcall.len0
            data == SubSeq(pcall.buf0, 1, L)
        IN  /\ (\A k \in 1..L : data[k] # 0) => (buf = pcall.buf0 /\ len = L)
            /\ len = Len(SelectSeq(data, NonZero))
            /\ SubSeq(buf, 1, len) = SelectSeq(data, NonZero)
            /\ len <= L

\* C17: in every state a session holds at most one open side-file
\* descriptor, and gf->fd is -1 or that descriptor, so that each close()
\* closes a descriptor that is open; after gcryfileDestruct or a failed
\* rsgcryInitCrypt the session has no descriptor open.
C17_DescriptorLifecycle ==
    \A p \in Procs :
        /\ Cardinality(DOMAIN fdt[p]) <= 1
        /\ \/ gf[p].fd = -1 /\ fdt[p] = <<>>
           \/ DOMAIN fdt[p] = {gf[p].fd}
        /\ pc[p] \in {"closed", "failed"} => (gf[p].fd = -1 /\ fdt[p] = <<>>)

C17_Witness ==
    /\ ~hist.fresh /\ pc["w"] = "closed" /\ "IV" \in hist.written
    /\ pc["r"] = "closed" /\ readIVRet["r"] = RS_RET_OK
    /\ fdt["w"] = <<>> /\ fdt["r"] = <<>>

\* C18: no step of a read-mode session, from rsgcryInitCrypt through
\* gcryfileDestruct, changes the side-file; the END write eiClose attempts
\* through the read-only descriptor fails without effect.
C18_ReadersDoNotWrite ==
    [][Reader => (file' = file /\ exists' = exists)]_vars

C18_Witness ==
    /\ pc["r"] = "closed" /\ readIVRet["r"] = RS_RET_OK
    /\ hist.offs["r"] = <<12345>> /\ ~hist.endFull["r"]
    /\ exists /\ ~HasENDLine(file)

====
